---- MODULE Spec2Model ----
(***************************************************************************)
(* Model of frontend/public/server.py: a single-threaded static file      *)
(* server (socketserver.TCPServer + SimpleHTTPRequestHandler) whose        *)
(* handler adds four fixed headers in end_headers and answers OPTIONS      *)
(* with a bare 200.  The inherited library methods the script runs are     *)
(* modelled from the behaviour of the Python 3.11 standard library.        *)
(***************************************************************************)
EXTENDS Naturals, Sequences, FiniteSets, TLC

(* ------------------------------------------------------------------ *)
(* Bounds                                                             *)
(* ------------------------------------------------------------------ *)

\* connections that may wait in the listen queue, not yet accepted
MaxBacklog == 2

\* connections the clients open during one run of the process
MaxConns == 3

(* ------------------------------------------------------------------ *)
(* Program constants                                                  *)
(* ------------------------------------------------------------------ *)

PORT == 3012

(* ------------------------------------------------------------------ *)
(* The file system the process runs in.  A file-system path is the    *)
(* sequence of its names below "/".                                   *)
(* ------------------------------------------------------------------ *)

\* os.path.dirname(os.path.abspath(__file__)): the directory of the script
ScriptDir == <<"srv">>

\* the working directory the process is launched from
LaunchDir == <<>>

Dirs == { <<>>, <<"srv">>, <<"srv", "sub">> }

Files == { <<"secret">>, <<"srv", "index.html">>, <<"srv", "sub", "secret">> }

\* the bytes of each regular file
Contents(p) ==
    CASE p = <<"secret">>               -> <<83, 69, 67>>
      [] p = <<"srv", "index.html">>    -> <<60, 104, 62>>
      [] p = <<"srv", "sub", "secret">> -> <<105, 110>>
      [] OTHER                          -> <<>>

\* st_mtime of a regular file
MTime(p) == 5

\* every name of the file system, in the order list.sort(key=str.lower) gives
NameOrder == <<"index.html", "secret", "srv", "sub">>

IsPrefix(s, t) == Len(s) <= Len(t) /\ SubSeq(t, 1, Len(s)) = s

\* a file-system path lies inside (or is) the directory root
Inside(root, p) == IsPrefix(root, p)

(* ------------------------------------------------------------------ *)
(* Requests.  A request line is  method path [version]; version ""    *)
(* is the two-word form.  A URL path keeps its raw text and its       *)
(* "/"-separated components.                                          *)
(* ------------------------------------------------------------------ *)

P(raw, abs, comps, slash) == [raw |-> raw, abs |-> abs, comps |-> comps, slash |-> slash]

Paths ==
    { P("/", TRUE, <<>>, TRUE),
      P("/index.html", TRUE, <<"index.html">>, FALSE),
      P("/index.html/", TRUE, <<"index.html">>, TRUE),
      P("/sub", TRUE, <<"sub">>, FALSE),
      P("/sub/", TRUE, <<"sub">>, TRUE),
      P("/sub/secret", TRUE, <<"sub", "secret">>, FALSE),
      P("/secret", TRUE, <<"secret">>, FALSE),
      P("/srv/index.html", TRUE, <<"srv", "index.html">>, FALSE),
      P("/..", TRUE, <<"..">>, FALSE),
      P("/../", TRUE, <<"..">>, TRUE),
      P("/../secret", TRUE, <<"..", "secret">>, FALSE),
      P("../secret", FALSE, <<"..", "secret">>, FALSE),
      P("../../secret", FALSE, <<"..", "..", "secret">>, FALSE),
      P("/%2e%2e/secret", TRUE, <<"%2e%2e", "secret">>, FALSE),
      P("/sub/../../secret", TRUE, <<"sub", "..", "..", "secret">>, FALSE),
      P("/sub/./secret", TRUE, <<"sub", ".", "secret">>, FALSE),
      P("/../sub", TRUE, <<"..", "sub">>, FALSE),
      P("/../sub/", TRUE, <<"..", "sub">>, TRUE),
      P("/../index.html", TRUE, <<"..", "index.html">>, FALSE),
      P("/sub/../index.html", TRUE, <<"sub", "..", "index.html">>, FALSE) }

Methods == { "GET", "HEAD", "OPTIONS", "POST" }

Versions == { "", "HTTP/1.0", "HTTP/1.1", "HTTP/2.0", "HTTP/abc" }

\* the conditional request headers: If-Modified-Since (a time) and If-None-Match
HeaderSets ==
    { [has_ims |-> FALSE, ims |-> 0, has_inm |-> FALSE],
      [has_ims |-> TRUE, ims |-> 3, has_inm |-> FALSE],
      [has_ims |-> TRUE, ims |-> 7, has_inm |-> FALSE],
      [has_ims |-> TRUE, ims |-> 7, has_inm |-> TRUE] }

Requests == [method : Methods, path : Paths, version : Versions, headers : HeaderSets]

(* ------------------------------------------------------------------ *)
(* Responses                                                          *)
(* ------------------------------------------------------------------ *)

NoBody == [kind |-> "none", bytes |-> <<>>, origin |-> <<>>, names |-> <<>>]

\* origin: the file or directory the bytes were read from
FileBody(p) == [kind |-> "file", bytes |-> Contents(p), origin |-> p, names |-> <<>>]

ErrorBody(message) == [kind |-> "error", bytes |-> <<>>, origin |-> <<>>, names |-> <<message>>]

\* code: the status given to send_response (and logged); status_line: the
\* status written on the wire, 0 when no status line is written
NoResp == [code |-> 0, status_line |-> 0, headers |-> <<>>, body |-> NoBody]

NoRequest == [method |-> "", path |-> P("", FALSE, <<>>, FALSE), version |-> "",
              headers |-> [has_ims |-> FALSE, ims |-> 0, has_inm |-> FALSE]]

(* ------------------------------------------------------------------ *)
(* BaseHTTPRequestHandler: the response primitives                    *)
(* ------------------------------------------------------------------ *)

send_response_only(self, code) ==
    IF self.request_version # "HTTP/0.9"
    THEN [self EXCEPT !.resp.status_line = code]
    ELSE self

send_header(self, keyword, value) ==
    IF self.request_version # "HTTP/0.9"
    THEN [self EXCEPT !.resp.headers = Append(@, <<keyword, value>>)]
    ELSE self

send_response(self, code) ==
    LET s0 == [self EXCEPT !.resp.code = code]
        s1 == send_response_only(s0, code)
        s2 == send_header(s1, "Server", "SimpleHTTP/0.6")
    IN  send_header(s2, "Date", "now")

\* BaseHTTPRequestHandler.end_headers: the blank line, then the flush
base_end_headers(self) == self

\* CORSRequestHandler.end_headers
end_headers(self) ==
    LET s1 == send_header(self, "Access-Control-Allow-Origin", "*")
        s2 == send_header(s1, "Access-Control-Allow-Methods", "GET, POST, OPTIONS")
        s3 == send_header(s2, "Access-Control-Allow-Headers", "*")
        s4 == send_header(s3, "Cache-Control", "no-cache, no-store, must-revalidate")
    IN  base_end_headers(s4)

\* do_OPTIONS as it would be if the preflight were answered 204 No Content
do_OPTIONS_204(self) == end_headers(send_response(self, 204))

\* CORSRequestHandler.do_OPTIONS
do_OPTIONS(self) == end_headers(send_response(self, 200))

\* send_error as it would be if the error path ended the headers with the
\* base class method instead of the override
send_error_base(self, code, message) ==
    LET s1 == send_response(self, code)
        s2 == send_header(s1, "Connection", "close")
        hasBody == code >= 200 /\ code \notin {204, 205, 304}
        s3 == IF hasBody
              THEN send_header(send_header(s2, "Content-Type", "text/html;charset=utf-8"),
                               "Content-Length", "len(body)")
              ELSE s2
        s4 == base_end_headers(s3)
    IN  IF self.command # "HEAD" /\ hasBody
        THEN [s4 EXCEPT !.resp.body = ErrorBody(message)]
        ELSE s4

\* BaseHTTPRequestHandler.send_error
send_error(self, code, message) ==
    LET s1 == send_response(self, code)
        s2 == send_header(s1, "Connection", "close")
        hasBody == code >= 200 /\ code \notin {204, 205, 304}
        s3 == IF hasBody
              THEN send_header(send_header(s2, "Content-Type", "text/html;charset=utf-8"),
                               "Content-Length", "len(body)")
              ELSE s2
        s4 == end_headers(s3)
    IN  IF self.command # "HEAD" /\ hasBody
        THEN [s4 EXCEPT !.resp.body = ErrorBody(message)]
        ELSE s4

(* ------------------------------------------------------------------ *)
(* SimpleHTTPRequestHandler: path resolution                          *)
(* ------------------------------------------------------------------ *)

\* urllib.parse.unquote, on one component of the path
unquote(word) == IF word = "%2e%2e" THEN ".." ELSE word

unquote_all(comps) == [i \in 1..Len(comps) |-> unquote(comps[i])]

\* posixpath.normpath, on the components of a path (abs: it starts with "/")
RECURSIVE normpath_from(_, _, _)
normpath_from(comps, abs, new_comps) ==
    IF comps = <<>> THEN new_comps
    ELSE LET comp == Head(comps)
             rest == Tail(comps)
         IN  IF comp \in {"", "."} THEN normpath_from(rest, abs, new_comps)
             ELSE IF \/ comp # ".."
                     \/ (~abs /\ new_comps = <<>>)
                     \/ (new_comps # <<>> /\ new_comps[Len(new_comps)] = "..")
                  THEN normpath_from(rest, abs, Append(new_comps, comp))
             ELSE IF new_comps # <<>>
                  THEN normpath_from(rest, abs, SubSeq(new_comps, 1, Len(new_comps) - 1))
             ELSE normpath_from(rest, abs, new_comps)

normpath(comps, abs) == normpath_from(comps, abs, <<>>)

\* keep_word as it would be if ".." were not ignored
keep_word_pardir(word) == word \notin {"", "."}

\* the loop of translate_path: components that are not a simple name are ignored
keep_word(word) == word \notin {"", ".", ".."}

\* SimpleHTTPRequestHandler.translate_path: the file-system path a URL path
\* names below directory, and whether it keeps an explicit trailing slash
translate_path(directory, path) ==
    LET words == normpath(unquote_all(path.comps), path.abs)
    IN  [fs |-> directory \o SelectSeq(words, keep_word), slash |-> path.slash]

\* the file-system object a path names once the kernel has followed its ".."
realpath(fs) == normpath(fs, TRUE)

\* os.path.isdir / os.path.isfile
isdir(fs) == realpath(fs) \in Dirs

isfile(fs) == realpath(fs) \in Files

\* os.listdir, sorted as list_directory sorts it
listdir(dir) == SelectSeq(NameOrder, LAMBDA n : Append(realpath(dir), n) \in Dirs \cup Files)

\* SimpleHTTPRequestHandler.guess_type
guess_type(fs) ==
    IF fs # <<>> /\ fs[Len(fs)] \in {"index.html", "index.htm"}
    THEN "text/html"
    ELSE "application/octet-stream"

(* ------------------------------------------------------------------ *)
(* SimpleHTTPRequestHandler: GET and HEAD.  self.f is what send_head  *)
(* returns: the body still to be copied, or NoBody for None.          *)
(* ------------------------------------------------------------------ *)

ListingBody(dir) ==
    [kind |-> "listing", bytes |-> <<>>, origin |-> realpath(dir), names |-> listdir(dir)]

\* list_directory as it would be if listings were refused
list_directory_403(self, dir) == send_error(self, 403, "Directory listing forbidden")

\* SimpleHTTPRequestHandler.list_directory
list_directory(self, dir) ==
    LET s1 == send_response(self, 200)
        s2 == send_header(s1, "Content-type", "text/html; charset=utf-8")
        s3 == send_header(s2, "Content-Length", "len(body)")
    IN  [end_headers(s3) EXCEPT !.f = ListingBody(dir)]

redirect(self) ==
    LET s1 == send_response(self, 301)
        s2 == send_header(s1, "Location", self.path.raw \o "/")
        s3 == send_header(s2, "Content-Length", "0")
    IN  end_headers(s3)

\* send_file as it would be if a missing file were answered 403
send_file_403(self, t) ==
    IF t.slash \/ ~isfile(t.fs)
    THEN send_error(self, 403, "Forbidden")
    ELSE IF /\ self.headers.has_ims
            /\ ~self.headers.has_inm
            /\ MTime(realpath(t.fs)) <= self.headers.ims
         THEN end_headers(send_response(self, 304))
         ELSE LET s1 == send_response(self, 200)
                  s2 == send_header(s1, "Content-type", guess_type(t.fs))
                  s3 == send_header(s2, "Content-Length",
                                    ToString(Len(Contents(realpath(t.fs)))))
                  s4 == send_header(s3, "Last-Modified", ToString(MTime(realpath(t.fs))))
              IN  [end_headers(s4) EXCEPT !.f = FileBody(realpath(t.fs))]

\* the tail of send_head, once the file to serve is known
send_file(self, t) ==
    IF t.slash \/ ~isfile(t.fs)
    THEN send_error(self, 404, "File not found")
    ELSE IF /\ self.headers.has_ims
            /\ ~self.headers.has_inm
            /\ MTime(realpath(t.fs)) <= self.headers.ims
         THEN end_headers(send_response(self, 304))
         ELSE LET s1 == send_response(self, 200)
                  s2 == send_header(s1, "Content-type", guess_type(t.fs))
                  s3 == send_header(s2, "Content-Length",
                                    ToString(Len(Contents(realpath(t.fs)))))
                  s4 == send_header(s3, "Last-Modified", ToString(MTime(realpath(t.fs))))
              IN  [end_headers(s4) EXCEPT !.f = FileBody(realpath(t.fs))]

send_head(self) ==
    LET t == translate_path(self.directory, self.path)
        index_html == Append(t.fs, "index.html")
        index_htm == Append(t.fs, "index.htm")
    IN  IF isdir(t.fs)
        THEN IF ~self.path.slash THEN redirect(self)
             ELSE IF isfile(index_html)
                  THEN send_file(self, [fs |-> index_html, slash |-> FALSE])
             ELSE IF isfile(index_htm)
                  THEN send_file(self, [fs |-> index_htm, slash |-> FALSE])
             ELSE list_directory(self, t.fs)
        ELSE send_file(self, t)

\* do_GET as it would be if the file were never copied to the client
do_GET_nocopy(self) == send_head(self)

\* do_GET: copyfile(f, self.wfile) when send_head returned a file
do_GET(self) ==
    LET s == send_head(self)
    IN  IF s.f.kind # "none" THEN [s EXCEPT !.resp.body = s.f] ELSE s

\* do_HEAD: the file is closed, nothing is copied
do_HEAD(self) == send_head(self)

(* ------------------------------------------------------------------ *)
(* BaseHTTPRequestHandler: the request line and the dispatch          *)
(* ------------------------------------------------------------------ *)

WellFormedVersion(version) == version \in {"HTTP/1.0", "HTTP/1.1", "HTTP/2.0"}

\* the major number of a well-formed version
Major(version) == IF version = "HTTP/2.0" THEN 2 ELSE 1

\* a handler as StreamRequestHandler.__init__ and
\* SimpleHTTPRequestHandler.__init__ leave it: directory is os.getcwd()
NewHandler(directory) ==
    [directory |-> directory, command |-> "", request_version |-> "HTTP/0.9",
     path |-> NoRequest.path, headers |-> NoRequest.headers,
     parsed |-> FALSE, resp |-> NoResp, f |-> NoBody]

\* BaseHTTPRequestHandler.parse_request; parsed is its return value
parse_request(self, req) ==
    IF req.version # "" /\ ~WellFormedVersion(req.version)
    THEN send_error(self, 400, "Bad request version")
    ELSE IF req.version # "" /\ Major(req.version) >= 2
    THEN send_error(self, 505, "Invalid HTTP version")
    ELSE LET s1 == IF req.version # "" THEN [self EXCEPT !.request_version = req.version]
                   ELSE self
         IN  IF req.version = "" /\ req.method # "GET"
             THEN send_error(s1, 400, "Bad HTTP/0.9 request type")
             ELSE [s1 EXCEPT !.command = req.method, !.path = req.path,
                             !.headers = req.headers, !.parsed = TRUE]

\* BaseHTTPRequestHandler.handle_one_request
handle_one_request(self, req) ==
    LET s == parse_request(self, req)
    IN  IF ~s.parsed THEN s
        ELSE IF s.command = "GET" THEN do_GET(s)
        ELSE IF s.command = "HEAD" THEN do_HEAD(s)
        ELSE IF s.command = "OPTIONS" THEN do_OPTIONS(s)
        ELSE send_error(s, 501, "Unsupported method")

\* the response the handler of one connection writes for request req when
\* the working directory of the process is directory
Respond(directory, req) == handle_one_request(NewHandler(directory), req).resp

(* ------------------------------------------------------------------ *)
(* The process: __main__ and the serve loop of socketserver           *)
(* ------------------------------------------------------------------ *)

VARIABLES
    pc,             \* where the main thread is
    cwd,            \* the working directory of the process
    port_taken,     \* another process holds PORT (fixed by the environment)
    sock,           \* the listening socket: "none", "listening", "closed"
    stdout,         \* the lines printed
    exit_code,      \* the exit status, meaningful once pc = "exited"
    interrupted,    \* the interrupt signal has been delivered
    opened,         \* connections the clients have opened so far
    backlog,        \* connections completed by the kernel, not yet accepted
    active,         \* connections accepted and being handled
    accepted,       \* connections accepted so far
    binds,          \* calls of socket.bind so far
    chdirs,         \* calls of os.chdir so far
    outcome,        \* how the handling of the latest connection ended
    request,        \* the request read from the latest connection
    response,       \* the response written to it
    had404,         \* an earlier connection was answered 404
    had_drop        \* an earlier connection was dropped by its client

vars == << pc, cwd, port_taken, sock, stdout, exit_code, interrupted, opened,
           backlog, active, accepted, binds, chdirs, outcome, request, response,
           had404, had_drop >>

conn_vars == << opened, backlog, active, accepted >>

req_vars == << outcome, request, response, had404, had_drop >>

BannerLines ==
    << "=== ZeroDrop Frontend Server ===",
       "Server started at http://localhost:" \o ToString(PORT),
       "Open your browser to: http://localhost:" \o ToString(PORT),
       "Press Ctrl+C to stop the server",
       "" >>

StoppedLine == "\nServer stopped."

Init ==
    /\ pc = "start"
    /\ cwd = LaunchDir
    /\ port_taken \in BOOLEAN
    /\ sock = "none"
    /\ stdout = <<>>
    /\ exit_code = 0
    /\ interrupted = FALSE
    /\ opened = 0
    /\ backlog = <<>>
    /\ active = {}
    /\ accepted = 0
    /\ binds = 0
    /\ chdirs = 0
    /\ outcome = "none"
    /\ request = NoRequest
    /\ response = NoResp
    /\ had404 = FALSE
    /\ had_drop = FALSE

\* Chdir as it would be if the directory computed were the launch directory
Chdir_launchdir ==
    /\ pc = "start"
    /\ cwd' = LaunchDir
    /\ chdirs' = chdirs + 1
    /\ pc' = "chdir_done"
    /\ UNCHANGED << port_taken, sock, stdout, exit_code, interrupted, binds >>
    /\ UNCHANGED conn_vars
    /\ UNCHANGED req_vars

\* line 21: os.chdir(os.path.dirname(os.path.abspath(__file__)))
Chdir ==
    /\ pc = "start"
    /\ cwd' = ScriptDir
    /\ chdirs' = chdirs + 1
    /\ pc' = "chdir_done"
    /\ UNCHANGED << port_taken, sock, stdout, exit_code, interrupted, binds >>
    /\ UNCHANGED conn_vars
    /\ UNCHANGED req_vars

\* Bind as it would be if the OSError of a failed bind were swallowed
Bind_swallow ==
    /\ pc = "chdir_done"
    /\ binds' = binds + 1
    /\ sock' = IF port_taken THEN "closed" ELSE "listening"
    /\ pc' = "bound"
    /\ UNCHANGED << cwd, port_taken, stdout, exit_code, interrupted, chdirs >>
    /\ UNCHANGED conn_vars
    /\ UNCHANGED req_vars

\* line 23: TCPServer(("", PORT), CORSRequestHandler) binds and listens; when
\* bind raises, the constructor closes the socket and the OSError, caught
\* nowhere, ends the process with status 1
Bind ==
    /\ pc = "chdir_done"
    /\ binds' = binds + 1
    /\ IF port_taken
       THEN /\ sock' = "closed"
            /\ pc' = "exited"
            /\ exit_code' = 1
       ELSE /\ sock' = "listening"
            /\ pc' = "bound"
            /\ exit_code' = exit_code
    /\ UNCHANGED << cwd, port_taken, stdout, interrupted, chdirs >>
    /\ UNCHANGED conn_vars
    /\ UNCHANGED req_vars

\* lines 24-30: the banner, then serve_forever is entered
Banner ==
    /\ pc = "bound"
    /\ stdout' = stdout \o BannerLines
    /\ pc' = "serving"
    /\ UNCHANGED << cwd, port_taken, sock, exit_code, interrupted, binds, chdirs >>
    /\ UNCHANGED conn_vars
    /\ UNCHANGED req_vars

\* a client connects: the kernel completes the connection while the socket listens
Connect ==
    /\ sock = "listening"
    /\ opened < MaxConns
    /\ Len(backlog) < MaxBacklog
    /\ opened' = opened + 1
    /\ backlog' = Append(backlog, opened + 1)
    /\ UNCHANGED << pc, cwd, port_taken, sock, stdout, exit_code, interrupted,
                    active, accepted, binds, chdirs >>
    /\ UNCHANGED req_vars

\* LoopAtSelect as it would be with a threading server, which selects again
\* while connections are still being handled
LoopAtSelect_threaded == pc = "serving"

\* serve_forever is at selector.select: TCPServer handles the accepted
\* connection inside _handle_request_noblock before it selects again
LoopAtSelect == pc = "serving" /\ active = {}

\* serve_forever: select reports the socket readable, get_request accepts
Accept ==
    /\ LoopAtSelect
    /\ backlog # <<>>
    /\ active' = active \cup {Head(backlog)}
    /\ backlog' = Tail(backlog)
    /\ accepted' = accepted + 1
    /\ outcome' = "none"
    /\ request' = NoRequest
    /\ response' = NoResp
    /\ had404' = (had404 \/ response.code = 404)
    /\ had_drop' = (had_drop \/ outcome = "dropped")
    /\ UNCHANGED << pc, cwd, port_taken, sock, stdout, exit_code, interrupted,
                    opened, binds, chdirs >>

\* process_request: the handler reads the request, writes the whole response,
\* and shutdown_request closes the connection
Handle ==
    /\ pc = "serving"
    /\ \E c \in active, req \in Requests :
          /\ active' = active \ {c}
          /\ request' = req
          /\ response' = Respond(cwd, req)
          /\ outcome' = "answered"
    /\ UNCHANGED << had404, had_drop, pc, cwd, port_taken, sock, stdout, exit_code, interrupted,
                    opened, backlog, accepted, binds, chdirs >>

\* the client goes away while the response is written: the write raises
\* (BrokenPipeError), _handle_request_noblock catches Exception, handle_error
\* reports it and shutdown_request closes the connection
Disconnect ==
    /\ pc = "serving"
    /\ \E c \in active, req \in Requests :
          /\ active' = active \ {c}
          /\ request' = req
          /\ response' = NoResp
          /\ outcome' = "dropped"
    /\ UNCHANGED << had404, had_drop, pc, cwd, port_taken, sock, stdout, exit_code, interrupted,
                    opened, backlog, accepted, binds, chdirs >>

\* SIGINT before line 23: KeyboardInterrupt is caught nowhere
InterruptEarly ==
    /\ ~interrupted
    /\ pc \in {"start", "chdir_done"}
    /\ interrupted' = TRUE
    /\ pc' = "exited"
    /\ exit_code' = 130
    /\ UNCHANGED << cwd, port_taken, sock, stdout, binds, chdirs >>
    /\ UNCHANGED conn_vars
    /\ UNCHANGED req_vars

\* SIGINT inside the with block but before the try (lines 24-28): the with
\* statement closes the server, the KeyboardInterrupt is caught nowhere
InterruptBanner ==
    /\ ~interrupted
    /\ pc = "bound"
    /\ interrupted' = TRUE
    /\ sock' = "closed"
    /\ backlog' = <<>>
    /\ pc' = "exited"
    /\ exit_code' = 130
    /\ UNCHANGED << cwd, port_taken, stdout, opened, active, accepted, binds, chdirs >>
    /\ UNCHANGED req_vars

\* SIGINT inside serve_forever (line 30): a connection being handled is shut
\* down (the bare except of _handle_request_noblock) and the
\* KeyboardInterrupt reaches the except clause of line 31
InterruptServing ==
    /\ ~interrupted
    /\ pc = "serving"
    /\ interrupted' = TRUE
    /\ active' = {}
    /\ pc' = "interrupted"
    /\ UNCHANGED << cwd, port_taken, sock, stdout, exit_code, opened, backlog,
                    accepted, binds, chdirs >>
    /\ UNCHANGED req_vars

\* line 32: print("\nServer stopped.")
PrintStopped ==
    /\ pc = "interrupted"
    /\ stdout' = Append(stdout, StoppedLine)
    /\ pc' = "stopped"
    /\ UNCHANGED << cwd, port_taken, sock, exit_code, interrupted, binds, chdirs >>
    /\ UNCHANGED conn_vars
    /\ UNCHANGED req_vars

\* the end of the with block of line 23: TCPServer.__exit__ calls server_close
ServerClose ==
    /\ pc = "stopped"
    /\ sock' = "closed"
    /\ backlog' = <<>>
    /\ pc' = "closed"
    /\ UNCHANGED << cwd, port_taken, stdout, exit_code, interrupted, opened,
                    active, accepted, binds, chdirs >>
    /\ UNCHANGED req_vars

\* Exit as it would be if the KeyboardInterrupt were raised again
Exit_reraise ==
    /\ pc = "closed"
    /\ pc' = "exited"
    /\ exit_code' = 130
    /\ UNCHANGED << cwd, port_taken, sock, stdout, interrupted, binds, chdirs >>
    /\ UNCHANGED conn_vars
    /\ UNCHANGED req_vars

\* the script ends: the interpreter exits with status 0
Exit ==
    /\ pc = "closed"
    /\ pc' = "exited"
    /\ exit_code' = 0
    /\ UNCHANGED << cwd, port_taken, sock, stdout, interrupted, binds, chdirs >>
    /\ UNCHANGED conn_vars
    /\ UNCHANGED req_vars

Next ==
    \/ Chdir
    \/ Bind
    \/ Banner
    \/ Connect
    \/ Accept
    \/ Handle
    \/ Disconnect
    \/ InterruptEarly
    \/ InterruptBanner
    \/ InterruptServing
    \/ PrintStopped
    \/ ServerClose
    \/ Exit

Spec == Init /\ [][Next]_vars

\* the main thread runs on: its own steps are never postponed forever
MainSteps == Chdir \/ Bind \/ Banner \/ PrintStopped \/ ServerClose \/ Exit

FairSpec == Init /\ [][Next]_vars /\ WF_vars(MainSteps)

TypeOK ==
    /\ pc \in {"start", "chdir_done", "bound", "serving", "interrupted",
               "stopped", "closed", "exited"}
    /\ sock \in {"none", "listening", "closed"}
    /\ Len(backlog) <= MaxBacklog
    /\ opened <= MaxConns
    /\ outcome \in {"none", "answered", "dropped"}

(* ------------------------------------------------------------------ *)
(* Vocabulary of the properties                                       *)
(* ------------------------------------------------------------------ *)

\* the latest connection was handled to a complete response
Answered == outcome = "answered"

\* the request line names an HTTP/1.x version
HTTP1(req) == req.version \in {"HTTP/1.0", "HTTP/1.1"}

\* req is a request of method m: a request line of HTTP/1.x, or the two-word
\* line HTTP/0.9 defines, which exists for GET only
IsRequest(req, m) == req.method = m /\ (HTTP1(req) \/ (req.version = "" /\ m = "GET"))

\* the header keyword is sent exactly once, with value
HasHeader(resp, keyword, value) ==
    /\ \E i \in 1..Len(resp.headers) : resp.headers[i] = <<keyword, value>>
    /\ \A i \in 1..Len(resp.headers) :
          resp.headers[i][1] = keyword => resp.headers[i][2] = value

FourHeaders(resp) ==
    /\ HasHeader(resp, "Access-Control-Allow-Origin", "*")
    /\ HasHeader(resp, "Access-Control-Allow-Methods", "GET, POST, OPTIONS")
    /\ HasHeader(resp, "Access-Control-Allow-Headers", "*")
    /\ HasHeader(resp, "Cache-Control", "no-cache, no-store, must-revalidate")

\* the file-system object the path of req names below the served root
Resolved(req) == realpath(translate_path(ScriptDir, req.path).fs)

ResolvesToFile(req) == ~req.path.slash /\ Resolved(req) \in Files

ResolvesToDir(req) == Resolved(req) \in Dirs

Nonexistent(req) == Resolved(req) \notin Files \cup Dirs

\* the If-Modified-Since of req is not earlier than the modification of file f
\* and no If-None-Match overrides it
NotModifiedSince(req, f) ==
    req.headers.has_ims /\ ~req.headers.has_inm /\ MTime(f) <= req.headers.ims

HasTraversal(req) == \E i \in 1..Len(req.path.comps) : unquote(req.path.comps[i]) = ".."

\* the body was read from a file or directory of the served root
FromInside(resp) ==
    resp.body.kind \in {"file", "listing"} /\ Inside(ScriptDir, resp.body.origin)

NoOutsideContent(resp) ==
    resp.body.kind \in {"file", "listing"} => Inside(ScriptDir, resp.body.origin)

\* on an HTTP/1.x request the status line carries the status of the response
StatusOnWire(req, resp) == HTTP1(req) => resp.status_line = resp.code

(* ------------------------------------------------------------------ *)
(* C1                                                                 *)
(* ------------------------------------------------------------------ *)

\* C1 as stated: every response the server writes, whatever the request and
\* whatever the outcome, carries the four fixed headers with their exact values.
C1_EveryResponse == Answered => FourHeaders(response)

\* C1, amended: every response to a request whose request line names an
\* HTTP/1.x version, whatever the method, the path and the outcome (200, 301,
\* 304, 404, 501, ...), carries the four fixed headers with their exact values.
C1_Http1Responses == (Answered /\ HTTP1(request)) => FourHeaders(response)

C1_Witness ==
    /\ Answered
    /\ HTTP1(request)
    /\ request.method = "POST"
    /\ response.code = 501
    /\ FourHeaders(response)

(* ------------------------------------------------------------------ *)
(* C2                                                                 *)
(* ------------------------------------------------------------------ *)

\* C2 as stated: a GET of a path that resolves to an existing regular file
\* returns 200 and the bytes of the file, whatever headers the request carries
\* and whatever was handled before.
C2_AlwaysTheFile ==
    (Answered /\ IsRequest(request, "GET") /\ ResolvesToFile(request)) =>
        /\ response.code = 200
        /\ response.body.kind = "file"
        /\ response.body.bytes = Contents(Resolved(request))

\* C2, amended: a GET of a path that resolves to an existing regular file
\* returns 200 and the bytes of the file, whatever was handled before, unless
\* the request carries an If-Modified-Since (and no If-None-Match) that is not
\* earlier than the modification time of the file: then it returns 304 and
\* no body.
C2_TheFileUnlessNotModified ==
    (Answered /\ IsRequest(request, "GET") /\ ResolvesToFile(request)) =>
        /\ StatusOnWire(request, response)
        /\ IF NotModifiedSince(request, Resolved(request))
           THEN /\ response.code = 304
                /\ response.body = NoBody
           ELSE /\ response.code = 200
                /\ response.body.kind = "file"
                /\ response.body.bytes = Contents(Resolved(request))

C2_Witness ==
    /\ Answered
    /\ had404
    /\ IsRequest(request, "GET")
    /\ ResolvesToFile(request)
    /\ request.headers.has_inm
    /\ response.code = 200
    /\ response.body.bytes = Contents(<<"srv", "index.html">>)

(* ------------------------------------------------------------------ *)
(* C3                                                                 *)
(* ------------------------------------------------------------------ *)

\* C3: an OPTIONS request to any path, existing or not, returns 200 with an
\* empty body and the headers Access-Control-Allow-Methods: GET, POST, OPTIONS
\* and Access-Control-Allow-Headers: *.
C3_Options ==
    (Answered /\ IsRequest(request, "OPTIONS")) =>
        /\ response.code = 200
        /\ response.status_line = 200
        /\ response.body = NoBody
        /\ HasHeader(response, "Access-Control-Allow-Methods", "GET, POST, OPTIONS")
        /\ HasHeader(response, "Access-Control-Allow-Headers", "*")

C3_Witness ==
    /\ Answered
    /\ IsRequest(request, "OPTIONS")
    /\ Nonexistent(request)
    /\ response.code = 200

(* ------------------------------------------------------------------ *)
(* C4                                                                 *)
(* ------------------------------------------------------------------ *)

\* C4 as stated: a GET whose path has relative-traversal components resolves
\* inside the served root, its body never carries content from outside the
\* root, and it ends as a 404, as a 403, or as content from inside the root.
C4_TraversalEnds ==
    (Answered /\ IsRequest(request, "GET") /\ HasTraversal(request)) =>
        /\ Inside(ScriptDir, Resolved(request))
        /\ NoOutsideContent(response)
        /\ \/ response.code \in {403, 404}
           \/ FromInside(response)

\* C4, amended: a GET whose path has relative-traversal components resolves
\* inside the served root, its body never carries content from outside the
\* root, and it ends as a 404, as a 403, as content from inside the root, as
\* a 301 redirect (the path resolves to a directory of the root and has no
\* trailing slash) or as a 304 not-modified answer for a file of the root,
\* the last two without a body.
C4_TraversalStaysInside ==
    (Answered /\ IsRequest(request, "GET") /\ HasTraversal(request)) =>
        /\ Inside(ScriptDir, Resolved(request))
        /\ NoOutsideContent(response)
        /\ \/ response.code \in {403, 404}
           \/ response.code = 200 /\ FromInside(response)
           \/ /\ response.code = 301
              /\ response.body = NoBody
              /\ ResolvesToDir(request)
              /\ ~request.path.slash
           \/ /\ response.code = 304
              /\ response.body = NoBody
              /\ Resolved(request) \in Files \/ Append(Resolved(request), "index.html") \in Files

C4_Witness ==
    /\ Answered
    /\ IsRequest(request, "GET")
    /\ request.path.raw = "../../secret"
    /\ response.code = 404

(* ------------------------------------------------------------------ *)
(* C5                                                                 *)
(* ------------------------------------------------------------------ *)

\* a step that answers a connection with a 404
NotFoundStep == Answered' /\ ~Answered /\ response'.code = 404

\* C5: a GET of a path that does not exist under the served root returns 404;
\* the step that answers it leaves the server in its serve loop, listening,
\* with the same served root and the same waiting connections; and a request
\* handled after a 404 gets the response it would get from a fresh server.
C5_NotFound ==
    /\ []((Answered /\ IsRequest(request, "GET") /\ Nonexistent(request)) =>
             (response.code = 404 /\ StatusOnWire(request, response)))
    /\ [][NotFoundStep =>
             /\ pc' = "serving"
             /\ sock' = "listening"
             /\ cwd' = cwd
             /\ backlog' = backlog]_vars
    /\ []((Answered /\ had404) => response = Respond(ScriptDir, request))

C5_Witness ==
    /\ Answered
    /\ had404
    /\ IsRequest(request, "GET")
    /\ response.code = 200
    /\ pc = "serving"

(* ------------------------------------------------------------------ *)
(* C6                                                                 *)
(* ------------------------------------------------------------------ *)

ShutdownDone ==
    /\ pc = "exited"
    /\ exit_code = 0
    /\ sock = "closed"
    /\ stdout = Append(BannerLines, StoppedLine)

\* C6: an interrupt that arrives while the server runs its serve loop leads to
\* the shutdown message printed, the listening socket closed and exit status
\* 0; once the interrupt has arrived no further connection is accepted.
C6_Shutdown ==
    /\ (pc = "interrupted") ~> ShutdownDone
    /\ [][interrupted => accepted' = accepted]_vars

C6_Witness == ShutdownDone /\ interrupted /\ accepted > 0

(* ------------------------------------------------------------------ *)
(* C7                                                                 *)
(* ------------------------------------------------------------------ *)

\* C7: when the bind of PORT fails the process exits with a non-zero status
\* after a single bind attempt; it never enters the with block or the serve
\* loop, never has a listening socket, never accepts a connection and never
\* prints the banner.
C7_BindFailure ==
    port_taken =>
        /\ binds <= 1
        /\ pc \in {"start", "chdir_done", "exited"}
        /\ sock # "listening"
        /\ accepted = 0
        /\ stdout = <<>>
        /\ binds = 1 => (pc = "exited" /\ exit_code # 0)

C7_Witness == port_taken /\ binds = 1 /\ pc = "exited" /\ exit_code = 1

(* ------------------------------------------------------------------ *)
(* C8                                                                 *)
(* ------------------------------------------------------------------ *)

\* a step in which the client of the connection being handled goes away
DropStep == outcome' = "dropped" /\ active' # active

\* C8: at most one connection is being handled at any moment; a connection is
\* accepted only when none is being handled; and a client that disconnects
\* mid-response takes down its own connection only: the server stays in its
\* serve loop, listening, with the waiting connections untouched.
C8_OneAtATime ==
    /\ [](Cardinality(active) <= 1)
    /\ [][accepted' > accepted => active = {}]_vars
    /\ [][DropStep =>
             /\ pc' = "serving"
             /\ sock' = "listening"
             /\ active' = {}
             /\ backlog' = backlog]_vars

C8_Witness == had_drop /\ Answered /\ response.code = 200 /\ backlog # <<>>

(* ------------------------------------------------------------------ *)
(* C9                                                                 *)
(* ------------------------------------------------------------------ *)

\* C9 as stated: the socket is bound first and the working directory changed
\* afterwards; the served root is set exactly once, before the first
\* connection is accepted.
C9_BindThenChdir ==
    /\ chdirs > 0 => binds > 0
    /\ chdirs <= 1
    /\ accepted > 0 => (chdirs = 1 /\ cwd = ScriptDir)

\* C9, amended: the working directory is changed to the directory of the
\* script first, the socket is bound afterwards, and only then are connections
\* accepted; the served root is set exactly once, before the first connection
\* is accepted, and never changes afterwards.
C9_ChdirThenBind ==
    /\ [](binds > 0 => chdirs = 1)
    /\ []((sock = "listening" \/ accepted > 0) => (binds = 1 /\ cwd = ScriptDir))
    /\ [](chdirs <= 1)
    /\ [][chdirs > 0 => cwd' = cwd]_vars
    /\ []((Answered /\ IsRequest(request, "GET") /\ ResolvesToFile(request)
              /\ response.code = 200) =>
             Inside(ScriptDir, response.body.origin))

C9_Witness ==
    /\ accepted > 0
    /\ chdirs = 1
    /\ binds = 1
    /\ cwd = ScriptDir
    /\ Answered
    /\ response.body.origin = <<"srv", "index.html">>

(* ------------------------------------------------------------------ *)
(* C10                                                                *)
(* ------------------------------------------------------------------ *)

IsGetOrHead(req) == IsRequest(req, "GET") \/ IsRequest(req, "HEAD")

IndexOf(req) == Append(Resolved(req), "index.html")

\* C10 as stated: a GET or HEAD of a path that resolves to an existing
\* directory, with or without a trailing slash and whatever the directory
\* holds, returns 200 and the generated listing of that directory.
C10_AlwaysListing ==
    (Answered /\ IsGetOrHead(request) /\ ResolvesToDir(request)) =>
        /\ response.code = 200
        /\ response.body.kind = "listing"
        /\ response.body.origin = Resolved(request)

\* C10, amended: for a GET or HEAD of a path that resolves to an existing
\* directory: without a trailing slash the response is a 301 redirect to the
\* path with the slash added, without body; with the slash and an index.html
\* in the directory the response is the one for that file (200 with its bytes
\* on GET, or 304); with the slash and no index file the status is 200 and the
\* body of a GET is the generated listing of the directory, a HEAD has no body.
C10_DirectoryAnswer ==
    (Answered /\ IsGetOrHead(request) /\ ResolvesToDir(request)) =>
        /\ StatusOnWire(request, response)
        /\ IF ~request.path.slash
           THEN /\ response.code = 301
                /\ response.body = NoBody
                /\ HTTP1(request) =>
                      HasHeader(response, "Location", request.path.raw \o "/")
           ELSE IF IndexOf(request) \in Files
           THEN IF NotModifiedSince(request, IndexOf(request))
                THEN response.code = 304 /\ response.body = NoBody
                ELSE /\ response.code = 200
                     /\ response.body =
                           IF request.method = "GET" THEN FileBody(IndexOf(request)) ELSE NoBody
           ELSE /\ response.code = 200
                /\ response.body =
                      IF request.method = "GET" THEN ListingBody(Resolved(request)) ELSE NoBody

C10_Witness ==
    /\ Answered
    /\ request.method = "GET"
    /\ request.path.raw = "/sub/"
    /\ response.code = 200
    /\ response.body.kind = "listing"
    /\ response.body.names = <<"secret">>

====
